---- MODULE Spec2Model ----
(***************************************************************************)
(* The client-side state layer of the movie discovery client: the global   *)
(* reducer store (search term and favorites), the persistence of the       *)
(* favorites under the localStorage key "favorites", and the paginated     *)
(* feeds of the popular-movies page and of the search page.                *)
(***************************************************************************)
EXTENDS Integers, Sequences, FiniteSets, Bags, TLC

VARIABLES
    storage,      \* localStorage.getItem("favorites"): Null or Some(text)
    pageStatus,   \* "running", or "crashed" when evaluating the modules threw
    search,       \* ctx.search.status
    favorites,    \* ctx.favorites.items
    initialState, \* the constant initialState the modules evaluated to
    movies,       \* useState: the feed's items, each movie by its id
    page,         \* useState: the page number
    totalPages,   \* useState: Null or Some(n)
    totalResults, \* useState (search page): Null or Some(n)
    loading,      \* useState
    loadingMore,  \* useState
    error,        \* useState: Null or Some(message)
    inflight,     \* the bag of page requests awaiting their response
    rendered,     \* the values the last committed render gave the effects
    stale,        \* state was set since the last commit: a render is due
    observing,    \* an IntersectionObserver watches the mounted sentinel
    base,         \* history: ctx.favorites.items when the run of toggles began
    toggles,      \* history: TOGGLE_FAVORITE dispatches per id in that run
    typed,        \* history: the term changes typed on the search page
    arrived,      \* history: the results of the response HomePage merged last
    fetched,      \* history: the pages whose response HomePage has merged
    last,         \* history: the step taken last; of a response, whether the
                  \*   feed was reset for another term after its request
    pre           \* history: the store that the last load or dispatch found

storeVars == <<storage, pageStatus, search, favorites, initialState, base,
              toggles>>

feedVars == <<movies, page, totalPages, totalResults, loading, loadingMore,
              error, inflight, rendered, stale, observing, typed, arrived,
              fetched>>

vars == <<storeVars, feedVars, last, pre>>

----------------------------------------------------------------------------
(* Bounds *)

MaxId == 2          \* movie identifiers 603 .. 602 + MaxId
MaxToggles == 3     \* TOGGLE_FAVORITE dispatches per id in one run of toggles

Ids == 603..(602 + MaxId)

\* The strings the search term is drawn from: empty, blank, two terms.
Terms == {"", " ", "a", "ab"}

\* Action kinds outside the reducers' vocabulary.
UnknownTypes == {"RESET_ALL"}

----------------------------------------------------------------------------
(* JavaScript values *)

\* null, and a value that is present (localStorage.getItem, useState<T | null>)
Null == <<>>
Some(v) == <<v>>

\* The object {} as a mapping of movie id to flag.
EmptyItems == [k \in {} |-> FALSE]

\* state.items[id] read as a condition: undefined (absent) is falsy.
Flag(items, id) == id \in DOMAIN items /\ items[id]

\* Every Record<number, boolean> over the identifiers.
AllItems == UNION {[D -> BOOLEAN] : D \in SUBSET Ids}

----------------------------------------------------------------------------
(* JSON texts, as the sequence of their tokens *)

\* The property name of a numeric key: "603"
KeyTok(k) == "\"" \o ToString(k) \o "\""

BoolTok(b) == IF b THEN "true" ELSE "false"

SetMin(S) == CHOOSE m \in S : \A o \in S : m <= o

\* The members of an object in the order JSON.stringify emits them: integer
\* keys ascending.
RECURSIVE Members(_, _)
Members(items, keys) ==
    IF keys = {} THEN <<>>
    ELSE LET k == SetMin(keys)
             rest == keys \ {k}
         IN  <<KeyTok(k), ":", BoolTok(items[k])>>
             \o (IF rest = {} THEN <<>> ELSE <<",">> \o Members(items, rest))

\* JSON.stringify(updated): {"603":true,"604":false}
JSONstringify(items) == <<"{">> \o Members(items, DOMAIN items) \o <<"}">>

ParseFail == [ok |-> FALSE, value |-> EmptyItems]
ParseOk(items) == [ok |-> TRUE, value |-> items]

IsKeyTok(tok) == \E i \in Ids : KeyTok(i) = tok
KeyOf(tok) == CHOOSE i \in Ids : KeyTok(i) = tok

\* The members of an object text from position i on; a later duplicate of a
\* key overwrites the earlier one. Anything but  key : flag  followed by
\* , or the closing brace at the end of the text is a SyntaxError.
RECURSIVE ParseMembers(_, _, _)
ParseMembers(text, i, acc) ==
    IF i + 3 > Len(text) THEN ParseFail
    ELSE IF ~IsKeyTok(text[i]) \/ text[i + 1] # ":"
            \/ text[i + 2] \notin {"true", "false"} THEN ParseFail
    ELSE LET k == KeyOf(text[i])
             acc2 == [j \in DOMAIN acc \cup {k} |->
                         IF j = k THEN text[i + 2] = "true" ELSE acc[j]]
         IN  IF text[i + 3] = "}"
             THEN (IF i + 3 = Len(text) THEN ParseOk(acc2) ELSE ParseFail)
             ELSE IF text[i + 3] = ","
             THEN ParseMembers(text, i + 4, acc2)
             ELSE ParseFail

\* JSON.parse(stored) on the texts of flag mappings and their fragments:
\* ok = FALSE is the SyntaxError it throws.
JSONparse(text) ==
    IF Len(text) < 2 \/ text[1] # "{" THEN ParseFail
    ELSE IF text[2] = "}"
    THEN (IF Len(text) = 2 THEN ParseOk(EmptyItems) ELSE ParseFail)
    ELSE ParseMembers(text, 2, EmptyItems)

\* The texts an earlier session of the application left behind.
WrittenTexts == {JSONstringify(m) : m \in AllItems \ {EmptyItems}}

\* What a cut-off write or a hand edit leaves: every proper prefix of a
\* written text, the empty string included.
TruncatedTexts ==
    UNION {{SubSeq(t, 1, n) : n \in 0..(Len(t) - 1)} : t \in WrittenTexts}

----------------------------------------------------------------------------
(* The reducers *)

\* favoritesInitialState: thrown = TRUE when JSON.parse throws while the
\* module is evaluated.
favoritesInitialState(ls) ==
    LET stored == ls
    IN  IF stored = Null \/ stored = Some(<<>>)
        THEN [thrown |-> FALSE, items |-> EmptyItems]
        ELSE LET parsed == JSONparse(stored[1])
             IN  IF parsed.ok
                 THEN [thrown |-> FALSE, items |-> parsed.value]
                 ELSE [thrown |-> TRUE, items |-> EmptyItems]

searchInitialState == ""

\* favoritesReducer with the localStorage it acts on: the next items and
\* the next content of the key.
favoritesReducer_ToggleSetsTrue(items, action, ls) ==
    IF action.type = "TOGGLE_FAVORITE"
    THEN LET id == action.payload.id
             updated == [k \in DOMAIN items \cup {id} |->
                            IF k = id THEN TRUE ELSE items[k]]
         IN  [items |-> updated, ls |-> Some(JSONstringify(updated))]
    ELSE IF action.type = "CLEAR_FAVORITES"
    THEN [items |-> EmptyItems, ls |-> Null]
    ELSE [items |-> items, ls |-> ls]

favoritesReducer_ToggleWritesOld(items, action, ls) ==
    IF action.type = "TOGGLE_FAVORITE"
    THEN LET id == action.payload.id
             updated == [k \in DOMAIN items \cup {id} |->
                            IF k = id THEN ~Flag(items, id) ELSE items[k]]
         IN  [items |-> updated, ls |-> Some(JSONstringify(items))]
    ELSE IF action.type = "CLEAR_FAVORITES"
    THEN [items |-> EmptyItems, ls |-> Null]
    ELSE [items |-> items, ls |-> ls]

favoritesReducer_ClearWritesEmpty(items, action, ls) ==
    IF action.type = "TOGGLE_FAVORITE"
    THEN LET id == action.payload.id
             updated == [k \in DOMAIN items \cup {id} |->
                            IF k = id THEN ~Flag(items, id) ELSE items[k]]
         IN  [items |-> updated, ls |-> Some(JSONstringify(updated))]
    ELSE IF action.type = "CLEAR_FAVORITES"
    THEN [items |-> EmptyItems, ls |-> Some(JSONstringify(EmptyItems))]
    ELSE [items |-> items, ls |-> ls]

favoritesReducer_ToggleDropsOthers(items, action, ls) ==
    IF action.type = "TOGGLE_FAVORITE"
    THEN LET id == action.payload.id
             updated == [k \in {id} |-> ~Flag(items, id)]
         IN  [items |-> updated, ls |-> Some(JSONstringify(updated))]
    ELSE IF action.type = "CLEAR_FAVORITES"
    THEN [items |-> EmptyItems, ls |-> Null]
    ELSE [items |-> items, ls |-> ls]

favoritesReducer_DefaultClears(items, action, ls) ==
    IF action.type = "TOGGLE_FAVORITE"
    THEN LET id == action.payload.id
             updated == [k \in DOMAIN items \cup {id} |->
                            IF k = id THEN ~Flag(items, id) ELSE items[k]]
         IN  [items |-> updated, ls |-> Some(JSONstringify(updated))]
    ELSE IF action.type = "CLEAR_FAVORITES"
    THEN [items |-> EmptyItems, ls |-> Null]
    ELSE [items |-> EmptyItems, ls |-> ls]

\* a reducer that toggles what the storage holds instead of its state
favoritesReducer_TogglesStored(items, action, ls) ==
    IF action.type = "TOGGLE_FAVORITE"
    THEN LET id == action.payload.id
             stored == IF ls = Null THEN EmptyItems ELSE JSONparse(ls[1]).value
             updated == [k \in DOMAIN stored \cup {id} |->
                            IF k = id THEN ~Flag(stored, id) ELSE stored[k]]
         IN  [items |-> updated, ls |-> Some(JSONstringify(updated))]
    ELSE IF action.type = "CLEAR_FAVORITES"
    THEN [items |-> EmptyItems, ls |-> Null]
    ELSE [items |-> items, ls |-> ls]

favoritesReducer(items, action, ls) ==
    IF action.type = "TOGGLE_FAVORITE"
    THEN LET id == action.payload.id
             updated == [k \in DOMAIN items \cup {id} |->
                            IF k = id THEN ~Flag(items, id) ELSE items[k]]
         IN  [items |-> updated, ls |-> Some(JSONstringify(updated))]
    ELSE IF action.type = "CLEAR_FAVORITES"
    THEN [items |-> EmptyItems, ls |-> Null]
    ELSE [items |-> items, ls |-> ls]

searchReducer_ResetsOnOther(status, action) ==
    IF action.type = "CHANGE_SEARCH" THEN action.payload.status ELSE ""

\* a reducer that trims the term it stores
searchReducer_Trims(status, action) ==
    IF action.type # "CHANGE_SEARCH" THEN status
    ELSE IF action.payload.status = " " THEN ""
    ELSE action.payload.status

searchReducer(status, action) ==
    IF action.type = "CHANGE_SEARCH" THEN action.payload.status ELSE status

\* mainReducer: both reducers see every action.
mainReducer(state, action, ls) ==
    LET fav == favoritesReducer(state.favorites, action, ls)
    IN  [search |-> searchReducer(state.search, action),
         favorites |-> fav.items,
         ls |-> fav.ls]

\* The actions the hooks dispatch, and actions of an unknown kind.
ChangeSearchAction(t) == [type |-> "CHANGE_SEARCH", payload |-> [status |-> t]]
ToggleFavoriteAction(id) == [type |-> "TOGGLE_FAVORITE", payload |-> [id |-> id]]
ClearFavoritesAction == [type |-> "CLEAR_FAVORITES", payload |-> <<>>]
UnknownAction(t) == [type |-> t, payload |-> <<>>]

----------------------------------------------------------------------------
(* The store: one page load, its provider, the dispatches *)

Snapshot == [search |-> search, favorites |-> favorites, storage |-> storage]

\* No feed page is mounted.
NoFeed ==
    /\ movies = <<>>
    /\ page = 1
    /\ totalPages = Null
    /\ totalResults = Null
    /\ loading = FALSE
    /\ loadingMore = FALSE
    /\ error = Null
    /\ inflight = EmptyBag
    /\ rendered = [search |-> "", loadingMore |-> FALSE,
                   totalPages |-> Null, page |-> 1]
    /\ stale = FALSE
    /\ observing = FALSE
    /\ typed = 0
    /\ arrived = <<>>
    /\ fetched = {}

NoToggles == [i \in Ids |-> 0]

\* Evaluating the modules and mounting <ContextProvider>: useReducer starts
\* from initialState; a throw while the modules are evaluated leaves no
\* application.
Loaded(ls) ==
    LET fav == favoritesInitialState(ls)
    IN  /\ storage' = ls
        /\ pageStatus' = IF fav.thrown THEN "crashed" ELSE "running"
        /\ initialState' = [search |-> searchInitialState,
                            favorites |-> fav.items]
        /\ search' = searchInitialState
        /\ favorites' = fav.items
        /\ base' = fav.items
        /\ toggles' = NoToggles

StoreInitWith(contents) ==
    \E ls \in contents :
        LET fav == favoritesInitialState(ls)
        IN  /\ storage = ls
            /\ pageStatus = (IF fav.thrown THEN "crashed" ELSE "running")
            /\ initialState = [search |-> searchInitialState,
                               favorites |-> fav.items]
            /\ search = searchInitialState
            /\ favorites = fav.items
            /\ base = fav.items
            /\ toggles = NoToggles

InitWith(contents) ==
    /\ StoreInitWith(contents)
    /\ NoFeed
    /\ last = [op |-> "load"]
    /\ pre = Snapshot

\* dispatch(action) on the provider's reducer.
Dispatch(action) ==
    /\ pageStatus = "running"
    /\ LET next == mainReducer([search |-> search, favorites |-> favorites],
                               action, storage)
       IN  /\ search' = next.search
           /\ favorites' = next.favorites
           /\ storage' = next.ls
    /\ last' = [op |-> "dispatch", action |-> action]
    /\ pre' = Snapshot
    /\ UNCHANGED <<pageStatus, initialState>>

\* useSearch().setSearch(newValue)
setSearch ==
    \E t \in Terms :
        /\ Dispatch(ChangeSearchAction(t))
        /\ UNCHANGED <<base, toggles>>

\* useFavorites().toggleFavorite(id)
toggleFavorite ==
    \E id \in Ids :
        /\ toggles[id] < MaxToggles
        /\ Dispatch(ToggleFavoriteAction(id))
        /\ toggles' = [toggles EXCEPT ![id] = @ + 1]
        /\ UNCHANGED base

\* useFavorites().clearFavorites(); a new run of toggles starts after it.
clearFavorites ==
    /\ Dispatch(ClearFavoritesAction)
    /\ base' = favorites'
    /\ toggles' = NoToggles

\* dispatch of an action no reducer knows
dispatchUnknown ==
    \E t \in UnknownTypes :
        /\ Dispatch(UnknownAction(t))
        /\ UNCHANGED <<base, toggles>>

\* The page is loaded again: the modules are evaluated anew against the
\* storage the last session left.
Reload ==
    /\ Loaded(storage)
    /\ last' = [op |-> "load"]
    /\ pre' = Snapshot

\* A <ContextProvider> is constructed in the running page (the root is
\* rendered again, or a test renders its own provider): useReducer starts
\* from the constant initialState.
ContextProvider ==
    /\ pageStatus = "running"
    /\ search' = initialState.search
    /\ favorites' = initialState.favorites
    /\ base' = initialState.favorites
    /\ toggles' = NoToggles
    /\ last' = [op |-> "provider"]
    /\ pre' = Snapshot
    /\ UNCHANGED <<storage, pageStatus, initialState>>

Init == InitWith({Null} \cup {Some(t) : t \in WrittenTexts})

Next ==
    \/ setSearch /\ UNCHANGED feedVars
    \/ toggleFavorite /\ UNCHANGED feedVars
    \/ clearFavorites /\ UNCHANGED feedVars
    \/ dispatchUnknown /\ UNCHANGED feedVars
    \/ Reload /\ UNCHANGED feedVars

Spec == Init /\ [][Next]_vars

\* The store of a page in which providers are constructed again.
ProviderNext ==
    \/ Next
    \/ ContextProvider /\ UNCHANGED feedVars

ProviderSpec == Init /\ [][ProviderNext]_vars

\* The same store over a storage that anything may have written before the
\* first load.
CorruptInit ==
    InitWith({Null} \cup {Some(t) : t \in WrittenTexts \cup TruncatedTexts})

CorruptSpec == CorruptInit /\ [][Next]_vars

----------------------------------------------------------------------------
(* The paginated feeds: HomePage (popular movies) and SearchPage *)

MaxMovieId == 3      \* the provider's popular movies are 1 .. MaxMovieId
MaxHitId == 2        \* the provider's search hits are 1 .. MaxHitId
MaxResults == 2      \* results per response page
MaxTotalPages == 3   \* total_pages a response reports: 0 .. MaxTotalPages
MaxPage == 3         \* the sentinel advances the page up to MaxPage
MaxInflight == 2     \* the user acts only while fewer requests are pending
MaxTyped == 2        \* term changes typed on the search page
MaxTotalResults == 1 \* total_results a response reports: 1 .. MaxTotalResults

\* The terms typed on the search page.
SearchTerms == Terms \ {" "}

MovieIds == 1..MaxMovieId

\* results of a response: up to MaxResults movies, repeats included
ResultPages == UNION {[1..n -> MovieIds] : n \in 0..MaxResults}

\* What a provider answers: total_pages (and total_results) may be missing.
PopularResponses ==
    [results : ResultPages,
     total_pages : {Null} \cup {Some(n) : n \in 0..MaxTotalPages}]

SearchResponses ==
    [results : UNION {[1..n -> 1..MaxHitId] : n \in 0..MaxResults},
     total_pages : {Null} \cup {Some(n) : n \in 0..MaxTotalPages},
     total_results : {Null} \cup {Some(n) : n \in 1..MaxTotalResults}]

\* The useState values of a feed page with its pending requests.
FeedState ==
    [movies |-> movies, page |-> page, totalPages |-> totalPages,
     totalResults |-> totalResults, loading |-> loading,
     loadingMore |-> loadingMore, error |-> error, inflight |-> inflight]

\* The state setters' result: the hook state without the requests.
Hooks(st) ==
    <<st.movies, st.page, st.totalPages, st.totalResults, st.loading,
      st.loadingMore, st.error>>

SetFeed(st) ==
    /\ movies' = st.movies
    /\ page' = st.page
    /\ totalPages' = st.totalPages
    /\ totalResults' = st.totalResults
    /\ loading' = st.loading
    /\ loadingMore' = st.loadingMore
    /\ error' = st.error
    /\ inflight' = st.inflight

\* A number | null read as a condition: null and 0 are falsy.
Truthy(n) == n # Null /\ n[1] # 0

\* totalPages ?? 0, total_pages ?? 1, total_results ?? 0
OrElse(n, default) == IF n = Null THEN default ELSE n[1]

\* a merge that puts the new page first
AppendNew_Prepends(prev, results) ==
    LET NotInPrev(m) == ~\E i \in 1..Len(prev) : prev[i] = m
    IN  SelectSeq(results, NotInPrev) \o prev

\* [...prev, ...results.filter((m) => !prev.some((p) => p.id === m.id))]
AppendNew(prev, results) ==
    LET NotInPrev(m) == ~\E i \in 1..Len(prev) : prev[i] = m
    IN  prev \o SelectSeq(results, NotInPrev)

\* The dependencies [loadingMore, totalPages, page] of the observer effect.
ObserverDeps(d) == <<d.loadingMore, d.totalPages, d.page>>

\* an observer effect that returns no cleanup: an observer once created goes
\* on reporting
ObserverEffect_NoCleanup(st, deps, obs, sentinel) ==
    IF ObserverDeps(st) = ObserverDeps(deps) THEN obs
    ELSE IF st.loadingMore THEN obs
    ELSE IF Truthy(st.totalPages) /\ st.page >= st.totalPages[1] THEN obs
    ELSE obs \/ sentinel

\* The observer effect of a commit: with unchanged dependencies the observer
\* stays on the sentinel while that element stays mounted; otherwise the old
\* observer is removed and a new one watches observerRef.current unless the
\* effect returns early.
ObserverEffect(st, deps, obs, sentinel) ==
    IF ObserverDeps(st) = ObserverDeps(deps) THEN obs /\ sentinel
    ELSE IF st.loadingMore THEN FALSE
    ELSE IF Truthy(st.totalPages) /\ st.page >= st.totalPages[1] THEN FALSE
    ELSE sentinel

\* The page effect's condition in a commit whose page differs from the last.
PageEffectLoads(st, deps) ==
    /\ st.page # deps.page
    /\ st.page > 1
    /\ (~Truthy(st.totalPages) \/ st.page <= st.totalPages[1])

\* finally { setLoading(false); setLoadingMore(false); }
LoadFinally(st) == [st EXCEPT !.loading = FALSE, !.loadingMore = FALSE]

(* HomePage *)

\* loadMovies(pageToLoad) up to its await: the loading flag and the request
loadMoviesCall(st, pageToLoad) ==
    [st EXCEPT !.loading = IF pageToLoad = 1 THEN TRUE ELSE @,
               !.loadingMore = IF pageToLoad = 1 THEN @ ELSE TRUE,
               !.inflight = @ (+) SetToBag({[page |-> pageToLoad]})]

\* loadMovies after the await, the response in hand
loadMoviesResolved(st, res) ==
    LoadFinally(
        [st EXCEPT !.totalPages = IF Truthy(res.total_pages)
                                  THEN res.total_pages ELSE @,
                   !.movies = AppendNew(@, res.results)])

\* loadMovies when the request fails
loadMoviesRejected(st) ==
    LoadFinally(
        [st EXCEPT !.error =
            Some("Não foi possível carregar os filmes populares.")])

\* The sentinel <div ref={observerRef}> is in the committed tree.
HomeSentinel(st) ==
    /\ ~st.loading
    /\ st.error = Null
    /\ st.page < OrElse(st.totalPages, 0)

\* The first render of HomePage and its effects; in a development build
\* StrictMode runs the mount effects twice, in a production build once.
HomeMounted(effectRuns) ==
    /\ movies = <<>>
    /\ page = 1
    /\ totalPages = Null
    /\ totalResults = Null
    /\ loading = TRUE
    /\ loadingMore = FALSE
    /\ error = Null
    /\ inflight = [r \in {[page |-> 1]} |-> effectRuns]
    /\ rendered = [search |-> search, loadingMore |-> FALSE,
                   totalPages |-> Null, page |-> 1]
    /\ stale = FALSE
    /\ observing = FALSE
    /\ typed = 0
    /\ arrived = <<>>
    /\ fetched = {}

HomeInit ==
    /\ StoreInitWith({Null})
    /\ \E effectRuns \in {1, 2} : HomeMounted(effectRuns)
    /\ last = [op |-> "mount"]
    /\ pre = Snapshot

\* The IntersectionObserver callback with first.isIntersecting:
\* setPage((prev) => prev + 1)
Intersect ==
    /\ observing
    /\ page < MaxPage
    /\ BagCardinality(inflight) < MaxInflight
    /\ page' = page + 1
    /\ stale' = TRUE
    /\ last' = [op |-> "intersect"]
    /\ UNCHANGED <<pre, movies, totalPages, totalResults, loading, loadingMore,
                   error, inflight, rendered, observing, typed, arrived,
                   fetched>>

\* React renders HomePage with the state set so far, commits and runs the
\* effects whose dependencies changed.
HomeRender ==
    /\ stale
    /\ LET st == FeedState
           loads == PageEffectLoads(st, rendered)
           after == IF loads THEN loadMoviesCall(st, st.page) ELSE st
       IN  /\ SetFeed(after)
           /\ observing' =
                  ObserverEffect(st, rendered, observing, HomeSentinel(st))
           /\ rendered' = [search |-> search, loadingMore |-> st.loadingMore,
                           totalPages |-> st.totalPages, page |-> st.page]
           /\ stale' = (Hooks(after) # Hooks(st))
           /\ last' = [op |-> "render", loads |-> loads, reset |-> FALSE]
    /\ UNCHANGED <<pre, typed, arrived, fetched>>

\* The response to req arrives with content res.
HomeResolveWith(req, res) ==
    LET st == [FeedState EXCEPT !.inflight = @ (-) SetToBag({req})]
        after == loadMoviesResolved(st, res)
    IN  /\ BagIn(req, inflight)
        /\ SetFeed(after)
        /\ stale' = (stale \/ Hooks(after) # Hooks(st))
        /\ arrived' = res.results
        /\ fetched' = fetched \cup {req.page}
        /\ last' = [op |-> "resolve", page |-> req.page, outdated |-> FALSE]
        /\ UNCHANGED <<pre, rendered, observing, typed>>

\* A response of fetchPopularMovies arrives.
HomeResolve ==
    \E req \in BagToSet(inflight), res \in PopularResponses :
        HomeResolveWith(req, res)

\* A request of fetchPopularMovies fails.
HomeReject ==
    \E req \in BagToSet(inflight) :
        LET st == [FeedState EXCEPT !.inflight = @ (-) SetToBag({req})]
            after == loadMoviesRejected(st)
        IN  /\ SetFeed(after)
            /\ stale' = (stale \/ Hooks(after) # Hooks(st))
            /\ last' = [op |-> "reject", page |-> req.page]
            /\ UNCHANGED <<pre, rendered, observing, typed, arrived,
                           fetched>>

HomeNext ==
    \/ Intersect /\ UNCHANGED storeVars
    \/ HomeRender /\ UNCHANGED storeVars
    \/ HomeResolve /\ UNCHANGED storeVars
    \/ HomeReject /\ UNCHANGED storeVars

HomeSpec == HomeInit /\ [][HomeNext]_vars

(* SearchPage *)

\* loadSearchResults(pageToLoad) up to its await, with the search term of
\* the render it was called from
loadSearchResultsCall(st, term, pageToLoad) ==
    [st EXCEPT !.loading = IF pageToLoad = 1 THEN TRUE ELSE @,
               !.loadingMore = IF pageToLoad = 1 THEN @ ELSE TRUE,
               !.inflight =
                   @ (+) SetToBag({[term |-> term, page |-> pageToLoad]})]

\* loadSearchResults after the await, the response in hand
loadSearchResultsResolved(st, res) ==
    LoadFinally(
        [st EXCEPT !.totalPages = Some(OrElse(res.total_pages, 1)),
                   !.totalResults = Some(OrElse(res.total_results, 0)),
                   !.movies = AppendNew(@, res.results)])

\* a catch without the finally block
loadSearchResultsRejected_KeepsLoading(st) ==
    [st EXCEPT !.error =
        Some("Não foi possível carregar os resultados da pesquisa.")]

\* loadSearchResults when the request fails
loadSearchResultsRejected(st) ==
    LoadFinally(
        [st EXCEPT !.error =
            Some("Não foi possível carregar os resultados da pesquisa.")])

\* resetAndSearch up to the await inside loadSearchResults(1)
resetAndSearch(st, term) ==
    loadSearchResultsCall(
        [st EXCEPT !.movies = <<>>, !.page = 1, !.totalPages = Null,
                   !.totalResults = Null],
        term, 1)

\* The sentinel is rendered only by the main render of SearchPage.
SearchSentinel(st, term) ==
    /\ ~st.loading
    /\ st.error = Null
    /\ term # ""
    /\ st.movies # <<>>
    /\ st.page < OrElse(st.totalPages, 0)

\* SearchPage opened with an empty term: its first render and effects start
\* nothing.
SearchInit ==
    /\ StoreInitWith({Null})
    /\ NoFeed
    /\ last = [op |-> "mount"]
    /\ pre = Snapshot

\* The user types in the header's search input while SearchPage is shown
\* (or the page takes the term from the URL): the context changes.
SearchType ==
    /\ BagCardinality(inflight) < MaxInflight
    /\ typed < MaxTyped
    /\ setSearch
    /\ search' \in SearchTerms \ {search}
    /\ typed' = typed + 1
    /\ stale' = TRUE
    /\ UNCHANGED <<movies, page, totalPages, totalResults, loading,
                   loadingMore, error, inflight, rendered, observing, arrived,
                   fetched>>

\* React renders SearchPage with the state set so far, commits and runs, in
\* their order, the effects whose dependencies changed.
SearchRender ==
    /\ stale
    /\ LET st == FeedState
           resets == search # rendered.search /\ search # ""
           loads == PageEffectLoads(st, rendered)
           st1 == IF resets THEN resetAndSearch(st, search) ELSE st
           st2 == IF loads THEN loadSearchResultsCall(st1, search, st.page)
                  ELSE st1
       IN  /\ SetFeed(st2)
           /\ observing' =
                  ObserverEffect(st, rendered, observing,
                                 SearchSentinel(st, search))
           /\ rendered' = [search |-> search, loadingMore |-> st.loadingMore,
                           totalPages |-> st.totalPages, page |-> st.page]
           /\ stale' = (Hooks(st2) # Hooks(st))
           /\ last' = [op |-> "render", loads |-> loads, reset |-> resets]
    /\ UNCHANGED <<pre, typed, arrived, fetched>>

\* The response to req arrives with content res.
SearchResolveWith(req, res) ==
    LET st == [FeedState EXCEPT !.inflight = @ (-) SetToBag({req})]
        after == loadSearchResultsResolved(st, res)
    IN  /\ BagIn(req, inflight)
        /\ SetFeed(after)
        /\ stale' = (stale \/ Hooks(after) # Hooks(st))
        /\ last' = [op |-> "resolve", page |-> req.page,
                    outdated |-> req.term # rendered.search
                                 /\ rendered.search # ""]
        /\ UNCHANGED <<pre, rendered, observing, typed, arrived,
                           fetched>>

\* A response of fetchSearchMovie arrives.
SearchResolve ==
    \E req \in BagToSet(inflight), res \in SearchResponses :
        SearchResolveWith(req, res)

\* A request of fetchSearchMovie fails.
SearchReject ==
    \E req \in BagToSet(inflight) :
        LET st == [FeedState EXCEPT !.inflight = @ (-) SetToBag({req})]
            after == loadSearchResultsRejected(st)
        IN  /\ SetFeed(after)
            /\ stale' = (stale \/ Hooks(after) # Hooks(st))
            /\ last' = [op |-> "reject", page |-> req.page]
            /\ UNCHANGED <<pre, rendered, observing, typed, arrived,
                           fetched>>

SearchNext ==
    \/ SearchType /\ UNCHANGED <<storage, pageStatus, favorites>>
    \/ Intersect /\ UNCHANGED storeVars
    \/ SearchRender /\ UNCHANGED storeVars
    \/ SearchResolve /\ UNCHANGED storeVars
    \/ SearchReject /\ UNCHANGED storeVars

SearchSpec == SearchInit /\ [][SearchNext]_vars

----------------------------------------------------------------------------
(* The store's claims *)

IsDispatchOf(type) == last.op = "dispatch" /\ last.action.type = type

KnownTypes == {"CHANGE_SEARCH", "TOGGLE_FAVORITE", "CLEAR_FAVORITES"}

\* C1: while the application runs, the content of the key "favorites" is a
\* JSON text that parses to exactly the favorites in memory, an absent key
\* standing for the empty mapping.
C1_StorageMatchesMemory ==
    pageStatus = "running" =>
        IF storage = Null THEN favorites = EmptyItems
        ELSE LET parsed == JSONparse(storage[1])
             IN  parsed.ok /\ parsed.value = favorites

\* A toggle has just left a flag false beside another entry, all of it stored.
C1_Witness ==
    /\ IsDispatchOf("TOGGLE_FAVORITE")
    /\ storage # Null
    /\ Cardinality(DOMAIN favorites) = 2
    /\ \E id \in DOMAIN favorites : ~favorites[id]

\* C2: loading the application never fails on the stored favorites: a
\* missing key or a text that is no JSON mapping gives the empty mapping.
C2_HydrateNeverFails ==
    last.op = "load" =>
        /\ pageStatus = "running"
        /\ (storage = Null \/ ~JSONparse(storage[1]).ok
                => favorites = EmptyItems)

\* C3: in a run of toggles, the flag of every id is its flag at the start of
\* the run after an even number of its toggles and the inverse after an odd
\* number, whatever was toggled in between.
C3_ToggleParity ==
    pageStatus = "running" =>
        \A id \in Ids :
            Flag(favorites, id) =
                (IF toggles[id] % 2 = 0 THEN Flag(base, id) ELSE ~Flag(base, id))

\* One id toggled an odd number of times (at least thrice), another an even
\* number of times, from a mapping that held a true flag.
C3_Witness ==
    \E i, j \in Ids :
        /\ i # j
        /\ toggles[i] >= 3 /\ toggles[i] % 2 = 1
        /\ toggles[j] = 2
        /\ Flag(base, i)

\* C4: after CLEAR_FAVORITES the mapping is empty and the key is absent, so
\* loading again starts from the empty mapping.
C4_ClearRemovesKey ==
    /\ IsDispatchOf("CLEAR_FAVORITES") =>
           /\ favorites = EmptyItems
           /\ storage = Null
           /\ favoritesInitialState(storage) =
                  [thrown |-> FALSE, items |-> EmptyItems]
    /\ (last.op = "load" /\ pre.storage = Null) =>
           pageStatus = "running" /\ favorites = EmptyItems

\* Favorites of two movies, stored, have just been cleared.
C4_Witness ==
    /\ IsDispatchOf("CLEAR_FAVORITES")
    /\ Cardinality(DOMAIN pre.favorites) = 2
    /\ pre.storage # Null

\* C5: TOGGLE_FAVORITE{id} flips the flag of id (absent counts as false),
\* keeps every other entry, and stores the whole resulting mapping in the
\* same step; on the empty mapping toggle(603) gives {603: true} and the
\* text {"603":true}.
C5_ToggleFlipsOne ==
    IsDispatchOf("TOGGLE_FAVORITE") =>
        LET id == last.action.payload.id
        IN  /\ DOMAIN favorites = DOMAIN pre.favorites \cup {id}
            /\ favorites[id] = ~Flag(pre.favorites, id)
            /\ \A k \in DOMAIN pre.favorites \ {id} :
                   favorites[k] = pre.favorites[k]
            /\ storage = Some(JSONstringify(favorites))
            /\ (pre.favorites = EmptyItems /\ id = 603) =>
                   /\ favorites = (603 :> TRUE)
                   /\ storage = Some(<<"{", "\"603\"", ":", "true", "}">>)

\* toggle(603) has acted on the empty mapping.
C5_Witness ==
    /\ IsDispatchOf("TOGGLE_FAVORITE")
    /\ last.action.payload.id = 603
    /\ pre.favorites = EmptyItems
    /\ favorites = (603 :> TRUE)

\* C6: an action of an unknown kind changes neither the search term nor the
\* favorites nor the storage, and raises nothing.
C6_UnknownIsNoOp ==
    (last.op = "dispatch" /\ last.action.type \notin KnownTypes) =>
        /\ pageStatus = "running"
        /\ search = pre.search
        /\ favorites = pre.favorites
        /\ storage = pre.storage

\* An unknown action has been dispatched on a store that holds a term and
\* stored favorites.
C6_Witness ==
    /\ last.op = "dispatch"
    /\ last.action.type \notin KnownTypes
    /\ search # ""
    /\ favorites # EmptyItems
    /\ storage # Null

\* C7: CHANGE_SEARCH leaves the favorites and the storage as they were;
\* TOGGLE_FAVORITE and CLEAR_FAVORITES leave the search term as it was.
C7_OnlyTargetChanges ==
    /\ IsDispatchOf("CHANGE_SEARCH") =>
           favorites = pre.favorites /\ storage = pre.storage
    /\ (IsDispatchOf("TOGGLE_FAVORITE") \/ IsDispatchOf("CLEAR_FAVORITES")) =>
           search = pre.search

\* A toggle has changed the favorites of a store whose term is not empty.
C7_Witness ==
    /\ IsDispatchOf("TOGGLE_FAVORITE")
    /\ search # ""
    /\ favorites # pre.favorites
    /\ pre.favorites # EmptyItems

----------------------------------------------------------------------------
(* The feeds' claims *)

Occurrences(seq, id) == Cardinality({i \in 1..Len(seq) : seq[i] = id})

Range(seq) == {seq[i] : i \in 1..Len(seq)}

FirstIndex(seq, id) == SetMin({i \in 1..Len(seq) : seq[i] = id})

\* C8: the items of a feed never hold two elements with the same
\* identifier, whatever the provider answers.
C8_NoDuplicateIds ==
    \A id \in Range(movies) : Occurrences(movies, id) = 1

\* C9: when the page merged last and the page merged now share an
\* identifier, the items hold it exactly once, where it first arrived, and
\* the new items of the page follow the old items in response order.
C9_SharedIdKeptOnce ==
    [][last'.op = "resolve" =>
          /\ \A id \in Range(arrived) \cap Range(arrived') :
                 /\ Occurrences(movies', id) = 1
                 /\ FirstIndex(movies', id) = FirstIndex(movies, id)
          /\ LET New(m) == m \notin Range(movies)
             IN  movies' = movies \o SelectSeq(arrived', New)]_vars

\* C10: a response whose request was issued before the feed was reset for
\* another term changes neither the items nor totalPages nor totalResults.
C10_OutdatedResponseDiscarded ==
    [][(last'.op = "resolve" /\ last'.outdated) =>
          /\ movies' = movies
          /\ totalPages' = totalPages
          /\ totalResults' = totalResults]_vars

\* A firing of the sentinel's observer whose page is not yet requested, or
\* whose request is still outstanding.
AdvancePending ==
    \/ page # rendered.page
    \/ page > 1 /\ \E req \in BagToSet(inflight) : req.page = page

\* C11: a feed never has more than one page request in flight.
C11_OneRequestInFlight ==
    BagCardinality(inflight) <= 1

\* C12: the sentinel firing again before the request of an earlier firing
\* is resolved does not advance the page a second time.
C12_SecondFiringDropped ==
    [][(last'.op = "intersect" /\ AdvancePending) => page' = page]_vars

\* C13: a render that requests a page while totalPages is known requests a
\* page no greater than totalPages, total_pages 0 included.
C13_NoRequestBeyondTotalPages ==
    [][(last'.op = "render" /\ last'.loads /\ totalPages' # Null) =>
          page <= totalPages'[1]]_vars

\* The feed as rendered last has reached the last page the provider reported.
Exhausted ==
    /\ rendered.totalPages # Null
    /\ rendered.page >= rendered.totalPages[1]

RECURSIVE Dedup(_)
\* seq without the later occurrences of an id
Dedup(seq) ==
    IF seq = <<>> THEN <<>>
    ELSE LET front == Dedup(SubSeq(seq, 1, Len(seq) - 1))
             m == seq[Len(seq)]
         IN  IF m \in Range(front) THEN front ELSE Append(front, m)

\* C15: a render that finds a new non-empty term resets the feed: no items,
\* page 1, totalPages and totalResults cleared, page 1 of the new term
\* requested; when that request is the only one outstanding, its response
\* leaves exactly its deduplicated results as the items.
C15_ResetThenFirstPage ==
    [][/\ (last'.op = "render" /\ search # rendered.search /\ search # "") =>
              /\ last'.reset
              /\ movies' = <<>>
              /\ page' = 1
              /\ totalPages' = Null
              /\ totalResults' = Null
              /\ BagIn([term |-> search, page |-> 1], inflight')
       /\ \A res \in SearchResponses :
              LET req == [term |-> search, page |-> 1]
              IN  (/\ SearchResolveWith(req, res)
                   /\ inflight = SetToBag({req})
                   /\ rendered.search = search
                   /\ movies = <<>>) =>
                      movies' = Dedup(res.results)]_vars

\* C16: a failed request leaves an error, both loading flags false, and the
\* items, totalPages and totalResults as they were.
C16_FailureKeepsLastGood ==
    [][last'.op = "reject" =>
          /\ error' # Null
          /\ ~loading'
          /\ ~loadingMore'
          /\ movies' = movies
          /\ totalPages' = totalPages
          /\ totalResults' = totalResults]_vars

\* The request for a further page has failed on a feed that holds items and
\* knows its totals.
C16_Witness ==
    /\ last.op = "reject"
    /\ last.page > 1
    /\ error # Null
    /\ movies # <<>>
    /\ totalPages # Null
    /\ totalResults # Null

\* C17: after a response that reports total_pages, totalPages is the value
\* reported and the loading flag of the completed request is false.
C17_TotalsFromResponse ==
    [][\A req \in BagToSet(inflight), res \in PopularResponses :
          (HomeResolveWith(req, res) /\ res.total_pages # Null) =>
              /\ totalPages' = res.total_pages
              /\ IF req.page = 1 THEN ~loading' ELSE ~loadingMore']_vars

\* C18: after a response of the current term has been merged the feed
\* reports no error, whatever failed before.
C18_ErrorClearedBySuccess ==
    [][(last'.op = "resolve" /\ ~last'.outdated) => error' = Null]_vars

----------------------------------------------------------------------------
(* The store's claims, continued *)

\* C19: every provider starts with an empty search term and with the
\* favorites that hydrating the storage gives at its construction, also
\* when the storage was changed since the page was loaded.
C19_ProviderHydratesAtConstruction ==
    (last.op \in {"load", "provider"} /\ pageStatus = "running") =>
        /\ search = ""
        /\ favorites = favoritesInitialState(storage).items

\* C20: CHANGE_SEARCH makes the dispatched value the search term as it is,
\* be it empty or blank, whatever the term was.
C20_ChangeSearchReplaces ==
    IsDispatchOf("CHANGE_SEARCH") => search = last.action.payload.status

\* A blank term has replaced a term of two letters.
C20_Witness ==
    /\ IsDispatchOf("CHANGE_SEARCH")
    /\ pre.search = "ab"
    /\ search = " "

----------------------------------------------------------------------------
(* The hooks under and outside a provider *)

\* createContext's default value: its ctx is the constant initialState and
\* its dispatch, () => null, delivers nothing.
Context == [ctx |-> initialState, delivers |-> FALSE]

\* useContext(Context): the value of the nearest provider, or the default.
useContext(provided) ==
    IF provided
    THEN [ctx |-> [search |-> search, favorites |-> favorites],
          delivers |-> TRUE]
    ELSE Context

\* useSearch(): no statement of the hook throws.
useSearch(provided) ==
    LET c == useContext(provided)
    IN  [thrown |-> FALSE, search |-> c.ctx.search, delivers |-> c.delivers]

\* useFavorites(): no statement of the hook throws.
useFavorites(provided) ==
    LET c == useContext(provided)
    IN  [thrown |-> FALSE, favorites |-> c.ctx.favorites,
         delivers |-> c.delivers]

\* A component that no provider wraps calls a hook and the function the hook
\* returned: the action goes to the default dispatch.
HookOutsideProvider ==
    /\ pageStatus = "running"
    /\ \E hook \in {"useSearch", "useFavorites"} :
         \E action \in
              IF hook = "useSearch"
              THEN {ChangeSearchAction(t) : t \in Terms}
              ELSE {ToggleFavoriteAction(id) : id \in Ids}
                       \cup {ClearFavoritesAction} :
           LET h == IF hook = "useSearch"
                    THEN useSearch(FALSE) ELSE useFavorites(FALSE)
           IN  /\ ~h.delivers
               /\ last' = [op |-> "outside", hook |-> hook,
                           thrown |-> h.thrown, action |-> action]
    /\ pre' = Snapshot
    /\ UNCHANGED storeVars

OutsideNext ==
    \/ Next
    \/ HookOutsideProvider /\ UNCHANGED feedVars

OutsideSpec == Init /\ [][OutsideNext]_vars

\* C21: a hook used outside a provider throws an Error; it never hands out
\* a default state whose dispatch drops the action.
C21_HookOutsideThrows ==
    last.op = "outside" => last.thrown

----------------------------------------------------------------------------
(* MovieCard *)

\* a card that takes every stored key for a favorite
MovieCard_PressedWhenStored(items, id, actionButton) ==
    LET isFavorite == id \in DOMAIN items
    IN  [ariaPressed |-> isFavorite,
         ariaLabel |-> IF actionButton # Null THEN actionButton[1].label
                       ELSE IF isFavorite THEN "Remover dos favoritos"
                       ELSE "Adicionar aos favoritos"]

\* What MovieCard renders of its button from the favorites of the store:
\* isFavorite = !!favorites[id]; actionButton is Null or Some(button).
MovieCard(items, id, actionButton) ==
    LET isFavorite == Flag(items, id)
    IN  [ariaPressed |-> isFavorite,
         ariaLabel |-> IF actionButton # Null THEN actionButton[1].label
                       ELSE IF isFavorite THEN "Remover dos favoritos"
                       ELSE "Adicionar aos favoritos"]

\* handleClick of the default button: toggleFavorite(id), the action it
\* dispatches.
handleClick(id) == ToggleFavoriteAction(id)

\* C22: the default button of the card of id is pressed and labelled
\* "Remover dos favoritos" exactly when the favorites hold true for id, and
\* labelled "Adicionar aos favoritos" otherwise; a click dispatches the
\* toggle of that id and flips the pressed state of that card alone.
C22_CardShowsFlag ==
    pageStatus = "running" =>
        /\ \A id \in Ids :
               LET card == MovieCard(favorites, id, Null)
                   held == id \in DOMAIN favorites /\ favorites[id] = TRUE
               IN  /\ card.ariaPressed = held
                   /\ card.ariaLabel = (IF held THEN "Remover dos favoritos"
                                        ELSE "Adicionar aos favoritos")
        /\ \A id \in Ids :
               (last.op = "dispatch" /\ last.action = handleClick(id)) =>
                   \A other \in Ids :
                       MovieCard(favorites, other, Null).ariaPressed =
                           (IF other = id
                            THEN ~MovieCard(pre.favorites, other, Null).ariaPressed
                            ELSE MovieCard(pre.favorites, other, Null).ariaPressed)

\* A click has released the button of 603 beside the pressed button of 604.
C22_Witness ==
    /\ last.op = "dispatch"
    /\ last.action = handleClick(603)
    /\ 603 \in DOMAIN favorites
    /\ ~MovieCard(favorites, 603, Null).ariaPressed
    /\ MovieCard(favorites, 604, Null).ariaLabel = "Remover dos favoritos"

----------------------------------------------------------------------------
(* The feeds' claims, continued *)

\* C24: the items only grow at their end: a merge keeps the elements it
\* found, in their places, and appends the new elements of the response in
\* the order of the response; no other step of the page changes the items.
C24_AppendOnly ==
    [][/\ last'.op # "resolve" => movies' = movies
       /\ last'.op = "resolve" =>
              /\ Len(movies') >= Len(movies)
              /\ SubSeq(movies', 1, Len(movies)) = movies
              /\ LET New(m) == m \notin Range(movies)
                 IN  SubSeq(movies', Len(movies) + 1, Len(movies')) =
                         SelectSeq(arrived', New)]_vars

\* The page [3, 2] has been merged into the items [1, 2]: 3 alone was added,
\* at the end.
C24_Witness ==
    /\ last.op = "resolve"
    /\ arrived = <<3, 2>>
    /\ movies = <<1, 2, 3>>

----------------------------------------------------------------------------
(* Dispatches of one event, and the reducer run twice *)

MaxBatch == 2       \* dispatches issued in one event

\* The terms a handler of the batches dispatches.
BatchTerms == {"a", "ab"}

\* The actions a handler may dispatch.
BatchActions ==
    {ChangeSearchAction(t) : t \in BatchTerms}
        \cup {ToggleFavoriteAction(id) : id \in Ids}
        \cup {ClearFavoritesAction}
        \cup {UnknownAction(t) : t \in UnknownTypes}

Batches == UNION {[1..n -> BatchActions] : n \in 1..MaxBatch}

\* a queue in which every action reduces the state the handler saw
updateReducer_StaleState(state, queue, ls) ==
    IF queue = <<>>
    THEN [search |-> state.search, favorites |-> state.favorites, ls |-> ls]
    ELSE mainReducer(state, queue[Len(queue)], ls)

RECURSIVE updateReducer(_, _, _)
\* useReducer processing its queue in a render: each action reduces the
\* state the action before it left.
updateReducer(state, queue, ls) ==
    IF queue = <<>>
    THEN [search |-> state.search, favorites |-> state.favorites, ls |-> ls]
    ELSE LET next == mainReducer(state, Head(queue), ls)
         IN  updateReducer([search |-> next.search,
                            favorites |-> next.favorites],
                           Tail(queue), next.ls)

\* A handler dispatches the actions of queue and React renders the provider:
\* once in a production build, twice under StrictMode in a development
\* build, the second pass reducing the same state and queue over the storage
\* the first pass left; the state of the last pass is kept.
DispatchBatch ==
    /\ pageStatus = "running"
    /\ \E queue \in Batches, passes \in {1, 2} :
         LET state == [search |-> search, favorites |-> favorites]
             first == updateReducer(state, queue, storage)
             kept == IF passes = 2
                     THEN updateReducer(state, queue, first.ls) ELSE first
         IN  /\ search' = kept.search
             /\ favorites' = kept.favorites
             /\ storage' = kept.ls
             /\ base' = kept.favorites
             /\ last' = [op |-> "batch", actions |-> queue, passes |-> passes]
    /\ toggles' = NoToggles
    /\ pre' = Snapshot
    /\ UNCHANGED <<pageStatus, initialState>>

BatchNext ==
    \/ DispatchBatch /\ UNCHANGED feedVars
    \/ Reload /\ UNCHANGED feedVars

BatchSpec == Init /\ [][BatchNext]_vars

\* The greatest index of queue whose action has one of the types, 0 if none.
LastOf(queue, types) ==
    LET at == {i \in 1..Len(queue) : queue[i].type \in types}
    IN  IF at = {} THEN 0 ELSE CHOOSE i \in at : \A j \in at : j <= i

\* C25: after the dispatches of one event no update is lost: the term is
\* the one dispatched last, every flag is its flag before (false after a
\* clear) inverted once per toggle of its id dispatched since, and the
\* storage is what the last toggle or clear wrote for that mapping.
C25_NoLostUpdate ==
    last.op = "batch" =>
        LET queue == last.actions
            termAt == LastOf(queue, {"CHANGE_SEARCH"})
            clearAt == LastOf(queue, {"CLEAR_FAVORITES"})
            writeAt == LastOf(queue, {"TOGGLE_FAVORITE", "CLEAR_FAVORITES"})
            before == IF clearAt > 0 THEN EmptyItems ELSE pre.favorites
            Toggled(id) == {i \in (clearAt + 1)..Len(queue) :
                               queue[i] = ToggleFavoriteAction(id)}
        IN  /\ search = (IF termAt = 0 THEN pre.search
                         ELSE queue[termAt].payload.status)
            /\ DOMAIN favorites =
                   DOMAIN before \cup {id \in Ids : Toggled(id) # {}}
            /\ \A id \in Ids :
                   Flag(favorites, id) =
                       (IF Cardinality(Toggled(id)) % 2 = 0
                        THEN Flag(before, id) ELSE ~Flag(before, id))
            /\ storage = (IF writeAt = 0 THEN pre.storage
                          ELSE IF writeAt = clearAt THEN Null
                          ELSE Some(JSONstringify(favorites)))

\* One event has toggled 603 and 604 on stored favorites holding neither.
C25_Witness ==
    /\ last.op = "batch"
    /\ last.actions = <<ToggleFavoriteAction(603), ToggleFavoriteAction(604)>>
    /\ pre.storage # Null
    /\ ~Flag(pre.favorites, 603)
    /\ Flag(favorites, 603)
    /\ Flag(favorites, 604)

\* C26: the reducer run twice on the same state and action, as StrictMode
\* runs it, leaves the state and the storage that one run leaves, and what a
\* toggle or a clear writes does not depend on what the storage held.
C26_ReducerTwiceAsOnce ==
    (last.op = "batch" /\ Len(last.actions) = 1 /\ last.passes = 2) =>
        LET action == last.actions[1]
            once == favoritesReducer(pre.favorites, action, pre.storage)
        IN  /\ favorites = once.items
            /\ storage = once.ls
            /\ action.type \in {"TOGGLE_FAVORITE", "CLEAR_FAVORITES"} =>
                   \A other \in {Null} \cup {Some(t) : t \in WrittenTexts} :
                       favoritesReducer(pre.favorites, action, other) = once

\* A toggle reduced twice has rewritten stored favorites.
C26_Witness ==
    /\ last.op = "batch"
    /\ Len(last.actions) = 1
    /\ last.passes = 2
    /\ last.actions[1].type = "TOGGLE_FAVORITE"
    /\ pre.storage # Null
    /\ storage # pre.storage
    /\ storage # Null

\* C27: while a request for page 1 is in flight loading is set, and while a
\* request for a later page is in flight loadingMore is set, overlapping
\* requests included.
C27_FlagWhileInFlight ==
    \A req \in BagToSet(inflight) :
        IF req.page = 1 THEN loading ELSE loadingMore

\* C29: no request of the search feed carries the empty term.
C29_NoEmptyTermRequest ==
    \A req \in BagToSet(inflight) : req.term # ""

\* C28: once HomePage has rendered and run its effects, with no request in
\* flight and no error, the response of every page from 1 to the current
\* page has been merged into the items.
C28_NoPageSkipped ==
    (~stale /\ inflight = EmptyBag /\ error = Null /\ ~loading) =>
        \A p \in 1..page : p \in fetched

----------------------------------------------------------------------------
(* HomePage with a provider that always answers *)

\* A response of fetchPopularMovies arrives, its total_pages at least 1 and
\* the one every response of the run carries.
SteadyResolve ==
    \E req \in BagToSet(inflight), res \in PopularResponses :
        /\ Truthy(res.total_pages)
        /\ totalPages # Null => res.total_pages = totalPages
        /\ HomeResolveWith(req, res)

SteadyNext ==
    \/ Intersect /\ UNCHANGED storeVars
    \/ HomeRender /\ UNCHANGED storeVars
    \/ SteadyResolve /\ UNCHANGED storeVars

\* The sentinel in view keeps reporting, React renders what was set, and
\* every request is answered.
SteadySpec ==
    /\ HomeInit
    /\ [][SteadyNext]_vars
    /\ WF_vars(Intersect /\ UNCHANGED storeVars)
    /\ WF_vars(HomeRender /\ UNCHANGED storeVars)
    /\ WF_vars(SteadyResolve /\ UNCHANGED storeVars)

\* Nothing more can happen: no render is due, no request is in flight and no
\* observer watches the sentinel.
AtRest == ~stale /\ inflight = EmptyBag /\ ~observing

\* C23: with every request answered and one constant number of pages, the
\* feed comes to rest only exhausted and with the response of every page
\* 1..totalPages merged.
C23_RestsWithEveryPage ==
    AtRest =>
        /\ Truthy(totalPages)
        /\ page >= totalPages[1]
        /\ fetched = 1..totalPages[1]

----------------------------------------------------------------------------
(* FavoritesPage *)

\* Object.keys(favorites).filter((id) => favorites[+id])
FavoriteIds(items) == {id \in DOMAIN items : items[id]}

\* The ids of a set in the order of Object.keys: ascending.
RECURSIVE ObjectKeys(_)
ObjectKeys(keys) ==
    IF keys = {} THEN <<>>
    ELSE <<SetMin(keys)>> \o ObjectKeys(keys \ {SetMin(keys)})

\* The state of FavoritesPage the model does not use.
FavUnused ==
    <<page, totalPages, totalResults, loadingMore, error, rendered, stale,
      observing, typed, arrived, fetched>>

\* The first render of FavoritesPage and loadFavorites up to its await, run
\* by the mount effect: twice under StrictMode in a development build, once
\* in a production build. Without favorites the list is cleared and nothing
\* is requested.
FavMounted(effectRuns) ==
    LET ids == FavoriteIds(favorites)
    IN  /\ movies = <<>>
        /\ loading = (ids # {})
        /\ inflight = IF ids = {} THEN EmptyBag
                      ELSE [r \in {[ids |-> ids, answered |-> {}]} |->
                               effectRuns]
        /\ page = 1
        /\ totalPages = Null
        /\ totalResults = Null
        /\ loadingMore = FALSE
        /\ error = Null
        /\ rendered = [search |-> search, loadingMore |-> FALSE,
                       totalPages |-> Null, page |-> 1]
        /\ stale = FALSE
        /\ observing = FALSE
        /\ typed = 0
        /\ arrived = <<>>
        /\ fetched = {}

FavInit ==
    /\ StoreInitWith({Null} \cup {Some(t) : t \in WrittenTexts})
    /\ \E effectRuns \in {1, 2} : FavMounted(effectRuns)
    /\ last = [op |-> "mount"]
    /\ pre = Snapshot

\* A response of fetchMovieDetails(id) arrives; with the last of them
\* Promise.all resolves with the details of every requested id in the order
\* of ids: setMovies(results); setLoading(false)
FavResolve ==
    \E req \in BagToSet(inflight) :
        \E id \in req.ids \ req.answered :
            LET answered == req.answered \cup {id}
                rest == inflight (-) SetToBag({req})
            IN  /\ IF answered = req.ids
                   THEN /\ movies' = ObjectKeys(req.ids)
                        /\ loading' = FALSE
                        /\ inflight' = rest
                   ELSE /\ inflight' = rest (+) SetToBag(
                               {[req EXCEPT !.answered = answered]})
                        /\ UNCHANGED <<movies, loading>>
                /\ last' = [op |-> "resolve", ids |-> answered]
                /\ UNCHANGED <<pre, storeVars, FavUnused>>

\* A request of fetchMovieDetails fails and Promise.all rejects:
\* setMovies([]); setLoading(false)
FavReject ==
    \E req \in BagToSet(inflight) :
        /\ movies' = <<>>
        /\ loading' = FALSE
        /\ inflight' = inflight (-) SetToBag({req})
        /\ last' = [op |-> "reject", ids |-> req.ids]
        /\ UNCHANGED <<pre, storeVars, FavUnused>>

\* actionButton.onClick of a card of the grid:
\* toggleFavorite(id); setMovies((prev) => prev.filter((m) => m.id !== id))
FavRemove ==
    /\ ~loading
    /\ \E i \in 1..Len(movies) :
         LET id == movies[i]
             Kept(m) == m # id
         IN  /\ toggles[id] < MaxToggles
             /\ Dispatch(ToggleFavoriteAction(id))
             /\ toggles' = [toggles EXCEPT ![id] = @ + 1]
             /\ movies' = SelectSeq(movies, Kept)
    /\ UNCHANGED <<base, loading, inflight, FavUnused>>

FavNext ==
    \/ FavResolve
    \/ FavReject
    \/ FavRemove

FavSpec == FavInit /\ [][FavNext]_vars

\* C30: every movie of the list FavoritesPage displays has its flag true in
\* the favorites of the store.
C30_DisplayedAreFavorites ==
    \A i \in 1..Len(movies) : Flag(favorites, movies[i])

====
